---- MODULE Spec2Model ----
(***************************************************************************)
(* Model of tools/compare/compare_report.py: the scanner                   *)
(* (find_fulltest_dirs), the per-candidate parser (parse_fulltest_result   *)
(* with parse_function_call_from_md and parse_long_context_from_md), the  *)
(* score normaliser (create_radar_chart) and the driver loop of main().    *)
(*                                                                         *)
(* Representation.                                                         *)
(*  - A directory name is a sequence of characters, a character a small    *)
(*    natural number (its code point), so that substring tests and the     *)
(*    lexicographic order of sorted() are computed, not assumed.           *)
(*  - A narrative report is represented by what the regular expressions of *)
(*    the parser find in it: the marker, the labelled lines, the section,  *)
(*    the rows matching row_pattern in order, the summary line.            *)
(*  - A decimal field matched by [\d.]+ is a token [v, dots]: v is the     *)
(*    value in hundredths, dots the number of '.' in the matched text.     *)
(*    float() raises ValueError on a token with more than one dot.         *)
(*  - Python floats are exact rationals [n, d] in lowest terms.            *)
(***************************************************************************)
EXTENDS Integers, Sequences, FiniteSets, TLC

VARIABLES
    \* ---- a run of main() ----
    pc,            \* position of main(): "start", "parse", "report", "done"
    root,          \* the --input location: "missing", "file" or "dir"
    fs,            \* the entries of the root directory: name -> entry
    pattern,       \* --pattern: <<>> for None, <<p>> for the string p
    result_dirs,   \* main's result_dirs (names, in list order)
    i,             \* index of the next element of result_dirs to parse
    results,       \* main's results list
    exit_code,     \* -1 while running, then the process's exit status
    stdout,        \* the messages printed so far
    report,        \* <<>>, then <<[results, radar_chart]>>: the list given to
                   \* generate_html_report and the radar chart it drew from it
    \* ---- one call of parse_long_context_from_md ----
    md_path,       \* the narrative file given to the call
    lc_data,       \* its return value (<<>> before the call returns)
    \* ---- one call of parse_fulltest_result ----
    result_dir,    \* the candidate directory given to the call
    result,        \* [returned, value]: value is what the call returned
    \* ---- one call of create_radar_chart ----
    chart_results, \* the list of records given to the call
    radar_chart    \* [returned, traces]: the traces of the figure it built

vars == <<pc, root, fs, pattern, result_dirs, i, results, exit_code, stdout,
          report, md_path, lc_data, result_dir, result, chart_results,
          radar_chart>>

mainVars == <<pc, root, fs, pattern, result_dirs, i, results, exit_code, stdout,
              report>>
lcVars == <<md_path, lc_data>>
parseVars == <<result_dir, result>>
radarVars == <<chart_results, radar_chart>>

-----------------------------------------------------------------------------
(* Bounds of the model. *)

MaxRows == 2
MaxEntries == 3
MaxBatch == 3

-----------------------------------------------------------------------------
(* Numbers. *)

RECURSIVE GCD(_, _)
GCD(a, b) == IF b = 0 THEN a ELSE GCD(b, a % b)

Abs(x) == IF x < 0 THEN -x ELSE x

\* The float a / b (b > 0), as a rational in lowest terms.
TrueDiv(a, b) ==
    LET g == GCD(Abs(a), b)
    IN  IF a = 0 THEN [n |-> 0, d |-> 1] ELSE [n |-> a \div g, d |-> b \div g]

\* A float with an integral value.
FloatOf(x) == [n |-> x, d |-> 1]

Max2(a, b) == IF a >= b THEN a ELSE b

RECURSIVE SumSeq(_)
SumSeq(s) == IF s = <<>> THEN 0 ELSE Head(s) + SumSeq(Tail(s))

-----------------------------------------------------------------------------
(* Decimal tokens: the text matched by [\d.]+ . *)

\* float(text) raises ValueError unless the text has at most one dot.
FloatRaises(tok) == tok.dots > 1

\* float(text), in hundredths.
Float(tok) == tok.v

-----------------------------------------------------------------------------
(* parse_long_context_from_md *)

\* The result dict as initialised at the top of the function.
LcInitial ==
    [max_supported  |-> 0,
     avg_ttft_ms    |-> FloatOf(0),
     avg_latency_ms |-> FloatOf(0),
     avg_throughput |-> FloatOf(0),
     results        |-> <<>>]

\* match.group(6) == the positive glyph
RowSuccess(m) == m.glyph = "check"

\* The dict appended to result["results"] for one matched row.
RowEntry(m) ==
    [context_length |-> m.context_length,
     input_tokens   |-> m.input_tokens,
     ttft_ms        |-> Float(m.ttft),
     latency_ms     |-> Float(m.latency),
     throughput     |-> Float(m.throughput),
     success        |-> RowSuccess(m)]

\* One of the three float() conversions of a row raises.
RowRaises(m) ==
    FloatRaises(m.ttft) \/ FloatRaises(m.latency) \/ FloatRaises(m.throughput)

\* Mutant of RowMax: the success flag of the row is not looked at.
RowMaxAnyRow(cur, m) == Max2(cur, m.context_length)

\* if success: result["max_supported"] = max(result["max_supported"], context_length)
RowMax(cur, m) ==
    IF RowSuccess(m) THEN Max2(cur, m.context_length) ELSE cur

\* A loop body that keeps the successful rows only.
RowStepSuccessOnly(res, m) ==
    IF RowSuccess(m)
    THEN [res EXCEPT !.results = Append(@, RowEntry(m)),
                     !.max_supported = RowMax(@, m)]
    ELSE res

\* The body of the for loop for a row whose conversions succeed.
RowStep(res, m) ==
    [res EXCEPT !.results = Append(@, RowEntry(m)),
                !.max_supported = RowMax(@, m)]

\* The for loop over re.finditer(row_pattern, section_content): the result so
\* far and whether a conversion raised (which leaves the loop and the try).
RECURSIVE RowLoop(_, _)
RowLoop(rows, res) ==
    IF rows = <<>> THEN [res |-> res, raised |-> FALSE]
    ELSE IF RowRaises(Head(rows)) THEN [res |-> res, raised |-> TRUE]
    ELSE RowLoop(Tail(rows), RowStep(res, Head(rows)))

\* if summary_match: the three assignments, in order; a float() that raises
\* leaves the assignments before it done.
SummaryStep(res, summary) ==
    IF summary = <<>> THEN [res |-> res, raised |-> FALSE]
    ELSE LET s  == summary[1]
             r1 == [res EXCEPT !.max_supported = s.max]
             r2 == [r1 EXCEPT !.avg_ttft_ms = FloatOf(Float(s.avg_ttft))]
             r3 == [r2 EXCEPT !.avg_throughput = FloatOf(Float(s.avg_throughput))]
         IN  IF FloatRaises(s.avg_ttft) THEN [res |-> r1, raised |-> TRUE]
             ELSE IF FloatRaises(s.avg_throughput) THEN [res |-> r2, raised |-> TRUE]
             ELSE [res |-> r3, raised |-> FALSE]

\* successful_results = [r for r in result["results"] if r["success"]]
SuccessfulResults(rs) == SelectSeq(rs, LAMBDA r : r.success)

LatencyOf(rs) == [k \in 1..Len(rs) |-> rs[k].latency_ms]

\* Mutant of AvgLatencyStep: the mean is taken over all the rows.
AvgLatencyOfAllRows(res) ==
    IF res.results = <<>> THEN res
    ELSE [res EXCEPT !.avg_latency_ms =
             TrueDiv(SumSeq(LatencyOf(res.results)), Len(res.results))]

\* if successful_results: avg_latency_ms = sum(latency_ms) / len(successful_results)
AvgLatencyStep(res) ==
    LET ok == SuccessfulResults(res.results)
    IN  IF ok = <<>> THEN res
        ELSE [res EXCEPT !.avg_latency_ms = TrueDiv(SumSeq(LatencyOf(ok)), Len(ok))]

\* A parser that goes on to the summary line and the average latency after
\* a row whose conversion raised.
ParseLongContextResuming(md) ==
    IF md.kind \in {"absent", "unreadable"} \/ ~md.section THEN LcInitial
    ELSE AvgLatencyStep(SummaryStep(RowLoop(md.rows, LcInitial).res, md.summary).res)

parse_long_context_from_md(md) ==
    IF md.kind = "absent" THEN LcInitial            \* not md_path.exists()
    ELSE IF md.kind = "unreadable" THEN LcInitial   \* read_text raises
    ELSE IF ~md.section THEN LcInitial              \* not lc_section
    ELSE LET a == RowLoop(md.rows, LcInitial)
             b == SummaryStep(a.res, md.summary)
         IN  IF a.raised THEN a.res
             ELSE IF b.raised THEN b.res
             ELSE AvgLatencyStep(b.res)

-----------------------------------------------------------------------------
(* parse_function_call_from_md *)

\* Mutant of FcInitial: the support flag starts raised.
FcInitialSupported ==
    [supported     |-> TRUE,
     function_name |-> "",
     arguments     |-> "",
     latency_ms    |-> FloatOf(0)]

\* The result dict as initialised at the top of the function.
FcInitial ==
    [supported     |-> FALSE,
     function_name |-> "",
     arguments     |-> "",
     latency_ms    |-> FloatOf(0)]

\* The three re.search extractions made once the marker is found, in order;
\* float() raising on the latency leaves the name and the arguments assigned.
FcExtract(md) ==
    LET r0 == [FcInitial EXCEPT !.supported = TRUE]
        r1 == IF md.fn = <<>> THEN r0 ELSE [r0 EXCEPT !.function_name = md.fn[1]]
        r2 == IF md.args = <<>> THEN r1 ELSE [r1 EXCEPT !.arguments = md.args[1]]
    IN  IF md.latency = <<>> \/ FloatRaises(md.latency[1]) THEN r2
        ELSE [r2 EXCEPT !.latency_ms = FloatOf(Float(md.latency[1]))]

\* A parser that extracts the labelled lines whether or not the marker is
\* in the text.
ParseFunctionCallUnmarked(md) ==
    IF md.kind \in {"absent", "unreadable"} THEN FcInitial
    ELSE [FcExtract(md) EXCEPT !.supported = md.marker]

parse_function_call_from_md(md) ==
    IF md.kind = "absent" THEN FcInitial            \* not md_path.exists()
    ELSE IF md.kind = "unreadable" THEN FcInitial   \* read_text raises
    ELSE IF ~md.marker THEN FcInitial               \* marker not in content
    ELSE FcExtract(md)

-----------------------------------------------------------------------------
(* JSON documents: a decoded object is a function from its keys to values. *)

\* dict.get(key, default). A number read into a float field is a rational
\* (the default 0 of such a field compares equal to 0.0).
Get(d, key, default) == IF key \in DOMAIN d THEN d[key] ELSE default

\* A JSON number, and a JSON value that is not a number (a string).
JsonNumber(x) == [type |-> "number", v |-> x]
JsonString == [type |-> "string", v |-> 0]

\* open() + json.load() of a file raises, or the value decoded has no .get
LoadRaises(file) == file.kind = "bad" \/ file.kind = "nondict"

-----------------------------------------------------------------------------
(* parse_fulltest_result *)

\* FullTestResult(name=..., model=..., ...): the fields read from
\* benchmark/summary.json; the other fields take the dataclass defaults.
FullTestResult(name, bench_data) ==
    [name                 |-> name,
     model                |-> Get(bench_data, "model", "Unknown"),
     started_at           |-> Get(bench_data, "started_at", ""),
     wall_time_ms         |-> Get(bench_data, "wall_time_ms", 0),
     total_requests       |-> Get(bench_data, "total_requests", 0),
     success              |-> Get(bench_data, "success", 0),
     failure              |-> Get(bench_data, "failure", 0),
     success_rate         |-> Get(bench_data, "success_rate", FloatOf(0)),
     avg_ttft_ms          |-> Get(bench_data, "avg_ttft_ms", FloatOf(0)),
     p50_ttft_ms          |-> Get(bench_data, "p50_ttft_ms", 0),
     p95_ttft_ms          |-> Get(bench_data, "p95_ttft_ms", 0),
     p99_ttft_ms          |-> Get(bench_data, "p99_ttft_ms", 0),
     avg_latency_ms       |-> Get(bench_data, "avg_latency_ms", FloatOf(0)),
     p50_latency_ms       |-> Get(bench_data, "p50_latency_ms", 0),
     p95_latency_ms       |-> Get(bench_data, "p95_latency_ms", 0),
     p99_latency_ms       |-> Get(bench_data, "p99_latency_ms", 0),
     token_throughput     |-> Get(bench_data, "token_throughput", FloatOf(0)),
     rps                  |-> Get(bench_data, "rps", FloatOf(0)),
     ttft_distribution    |-> Get(bench_data, "ttft_distribution_ms", <<>>),
     latency_distribution |-> Get(bench_data, "latency_distribution_ms", <<>>),
     fc_supported         |-> FALSE,
     fc_function_name     |-> "",
     fc_arguments         |-> "",
     fc_latency_ms        |-> FloatOf(0),
     lc_max_supported     |-> 0,
     lc_avg_ttft_ms       |-> FloatOf(0),
     lc_avg_latency_ms    |-> FloatOf(0),
     lc_avg_throughput    |-> FloatOf(0),
     lc_results           |-> <<>>,
     summary_total_chunks        |-> 0,
     summary_total_tokens        |-> 0,
     summary_prompt_tokens       |-> 0,
     summary_completion_tokens   |-> 0,
     summary_processing_time_sec |-> FloatOf(0),
     summary_tokens_per_second   |-> FloatOf(0)]

\* processing_time_ns / 1e9 raises TypeError unless the value is a number.
ProcessingTimeRaises(summary_data) ==
    Get(summary_data, "total_processing_time", JsonNumber(0)).type # "number"

\* The phase read from summary/performance_metrics.json raises: the file does
\* not decode to an object, or its duration is not a number.
MetricsRaises(metrics) ==
    /\ metrics.kind # "absent"
    /\ \/ LoadRaises(metrics)
       \/ ProcessingTimeRaises(metrics.data)

\* if metrics_path.exists(): the six assignments from summary_data.
WithMetrics(r, metrics) ==
    IF metrics.kind = "absent" THEN r
    ELSE LET summary_data == metrics.data
         IN  [r EXCEPT
                !.summary_total_chunks = Get(summary_data, "total_chunks", 0),
                !.summary_total_tokens = Get(summary_data, "total_tokens", 0),
                !.summary_prompt_tokens = Get(summary_data, "total_prompt_tokens", 0),
                !.summary_completion_tokens =
                    Get(summary_data, "total_completion_tokens", 0),
                !.summary_processing_time_sec =
                    TrueDiv(Get(summary_data, "total_processing_time",
                                JsonNumber(0)).v, 1000000000),
                !.summary_tokens_per_second =
                    Get(summary_data, "tokens_per_second", FloatOf(0))]

\* The assignments from parse_function_call_from_md(md_path).
WithFunctionCall(r, md) ==
    LET fc_data == parse_function_call_from_md(md)
    IN  [r EXCEPT !.fc_supported = fc_data.supported,
                  !.fc_function_name = fc_data.function_name,
                  !.fc_arguments = fc_data.arguments,
                  !.fc_latency_ms = fc_data.latency_ms]

\* The assignments from parse_long_context_from_md(md_path).
WithLongContext(r, md) ==
    LET data == parse_long_context_from_md(md)
    IN  [r EXCEPT !.lc_max_supported = data.max_supported,
                  !.lc_avg_ttft_ms = data.avg_ttft_ms,
                  !.lc_avg_latency_ms = data.avg_latency_ms,
                  !.lc_avg_throughput = data.avg_throughput,
                  !.lc_results = data.results]

\* The candidate yields None: no benchmark/summary.json, or an exception
\* raised anywhere in the try block.
ParseFails(dir) ==
    \/ dir.bench.kind = "absent"
    \/ LoadRaises(dir.bench)
    \/ MetricsRaises(dir.metrics)

\* Optional[FullTestResult]: <<>> for None, <<r>> for the record r.
parse_fulltest_result(name, dir) ==
    IF ParseFails(dir) THEN <<>>
    ELSE <<WithLongContext(
             WithFunctionCall(
               WithMetrics(FullTestResult(name, dir.bench.data), dir.metrics),
               dir.md),
             dir.md)>>

-----------------------------------------------------------------------------
(* find_fulltest_dirs *)

\* pattern in item.name (the substring test of str)
Contains(name, p) ==
    \E k \in 0..(Len(name) - Len(p)) : SubSeq(name, k + 1, k + Len(p)) = p

\* a < b for str: the first differing character decides, a proper prefix is smaller.
RECURSIVE StrLess(_, _)
StrLess(a, b) ==
    IF b = <<>> THEN FALSE
    ELSE IF a = <<>> THEN TRUE
    ELSE IF Head(a) # Head(b) THEN Head(a) < Head(b)
    ELSE StrLess(Tail(a), Tail(b))

\* Insertion of one name into a list sorted by name (after the equal ones,
\* as the stable sorted() places it).
RECURSIVE Insert(_, _)
Insert(x, s) ==
    IF s = <<>> THEN <<x>>
    ELSE IF StrLess(x, Head(s)) THEN <<x>> \o s
    ELSE <<Head(s)>> \o Insert(x, Tail(s))

\* Mutant of Sorted: the list is returned in directory-listing order.
SortedAsListed(s) == s

\* sorted(results, key=lambda x: x.name)
RECURSIVE Sorted(_)
Sorted(s) ==
    IF s = <<>> THEN <<>> ELSE Insert(s[Len(s)], Sorted(SubSeq(s, 1, Len(s) - 1)))

\* The orders in which output_path.iterdir() may list the entries named `names`.
Listings(names) ==
    {s \in [1..Cardinality(names) -> names] :
        \A j, k \in 1..Cardinality(names) : j # k => s[j] # s[k]}

\* item.is_dir() and (item / "benchmark" / "summary.json").exists()
HasSummary(item) == item.kind = "dir" /\ item.bench.kind # "absent"

\* pattern is None or pattern in item.name
PatternMatches(pat, name) == pat = <<>> \/ Contains(name, pat[1])

\* The body of the loop over output_path.iterdir() for one item.
Keeps(dirfs, pat, name) == HasSummary(dirfs[name]) /\ PatternMatches(pat, name)

\* The loop over output_path.iterdir(), which lists the entries in the order
\* `listing`, then the sort.
find_fulltest_dirs(dirfs, listing, pat) ==
    Sorted(SelectSeq(listing, LAMBDA name : Keeps(dirfs, pat, name)))

-----------------------------------------------------------------------------
(* create_radar_chart: the normalised scores. *)

\* The float n / d for any d # 0, in lowest terms with a positive denominator.
Rational(n, d) == IF d < 0 THEN TrueDiv(-n, -d) ELSE TrueDiv(n, d)

\* a / b, a - b and a * b for floats.
FloatDiv(a, b) == Rational(a.n * b.d, a.d * b.n)
FloatSub(a, b) == Rational(a.n * b.d - b.n * a.d, a.d * b.d)
FloatMul(a, b) == Rational(a.n * b.n, a.d * b.d)

\* a < b for floats.
FloatLess(a, b) == a.n * b.d < b.n * a.d

\* max(...) of a non-empty sequence of floats.
RECURSIVE FloatMax(_)
FloatMax(s) ==
    IF Len(s) = 1 THEN s[1]
    ELSE LET m == FloatMax(Tail(s))
         IN  IF FloatLess(s[1], m) THEN m ELSE s[1]

\* A normaliser that divides by 1 whatever the maximum.
OrOneWhateverMax(m) == FloatOf(1)

\* max(...) or 1: a maximum of zero is falsy and gives 1.
OrOne(m) == IF m.n = 0 THEN FloatOf(1) ELSE m

\* A normaliser that takes the first record's value for the batch maximum.
BatchMaxOfFirst(results_, field) == OrOne(results_[1][field])

\* max(r.<field> for r in results) or 1
BatchMax(results_, field) ==
    OrOne(FloatMax([k \in 1..Len(results_) |-> results_[k][field]]))

\* A normaliser that does not invert the lower-is-better metrics.
InvertedScoreNotInverted(value, max) ==
    IF max.n > 0 THEN FloatMul(FloatDiv(value, max), FloatOf(100)) ELSE FloatOf(0)

\* (1 - value / max) * 100 if max > 0 else 0
InvertedScore(value, max) ==
    IF max.n > 0
    THEN FloatMul(FloatSub(FloatOf(1), FloatDiv(value, max)), FloatOf(100))
    ELSE FloatOf(0)

\* A normaliser that leaves the ratio unscaled.
DirectScoreUnscaled(value, max) ==
    IF max.n > 0 THEN FloatDiv(value, max) ELSE FloatOf(0)

\* (value / max) * 100 if max > 0 else 0
DirectScore(value, max) ==
    IF max.n > 0 THEN FloatMul(FloatDiv(value, max), FloatOf(100)) ELSE FloatOf(0)

\* r.success_rate * 100
SuccessScore(r) == FloatMul(r.success_rate, FloatOf(100))

\* The trace added for the record r: its name and its six scores, in the
\* order of `categories`.
RadarTrace(r, max_ttft, max_latency, max_throughput, max_rps, max_summary_tps) ==
    [name |-> r.name,
     r    |-> <<InvertedScore(r.avg_ttft_ms, max_ttft),
                InvertedScore(r.avg_latency_ms, max_latency),
                DirectScore(r.token_throughput, max_throughput),
                DirectScore(r.rps, max_rps),
                SuccessScore(r),
                DirectScore(r.summary_tokens_per_second, max_summary_tps)>>]

\* The traces of the figure, one per record in list order (none, and the
\* empty string returned, for an empty list).
create_radar_chart(results_) ==
    IF results_ = <<>> THEN <<>>
    ELSE LET max_ttft == BatchMax(results_, "avg_ttft_ms")
             max_latency == BatchMax(results_, "avg_latency_ms")
             max_throughput == BatchMax(results_, "token_throughput")
             max_rps == BatchMax(results_, "rps")
             max_summary_tps == BatchMax(results_, "summary_tokens_per_second")
         IN  [k \in 1..Len(results_) |->
                 RadarTrace(results_[k], max_ttft, max_latency, max_throughput,
                            max_rps, max_summary_tps)]

-----------------------------------------------------------------------------
(* main *)

Message(msg, arg) == [msg |-> msg, arg |-> arg]

\* The state of main() after find_fulltest_dirs returned `dirs`:
\* if not result_dirs: print, sys.exit(1); else the list is printed.
AfterScan(dirs) ==
    IF dirs = <<>>
    THEN /\ pc' = "done"
         /\ exit_code' = 1
         /\ stdout' = Append(stdout, Message("No fulltest results found", <<>>))
    ELSE /\ pc' = "parse"
         /\ exit_code' = exit_code
         /\ stdout' = Append(stdout, Message("Found", <<>>))

\* Mutant of ScanMissingRoot: the existence check prints nothing.
ScanMissingRootSilent ==
    /\ pc = "start" /\ root = "missing"
    /\ result_dirs' = <<>>
    /\ pc' = "done"
    /\ exit_code' = 1
    /\ stdout' = Append(stdout, Message("No fulltest results found", <<>>))
    /\ UNCHANGED <<root, fs, pattern, i, results, report>>

\* find_fulltest_dirs on a root that does not exist: the error is printed and
\* [] returned; main then exits.
ScanMissingRoot ==
    /\ pc = "start" /\ root = "missing"
    /\ result_dirs' = <<>>
    /\ pc' = "done"
    /\ exit_code' = 1
    /\ stdout' = stdout \o <<Message("Output directory does not exist", <<>>),
                             Message("No fulltest results found", <<>>)>>
    /\ UNCHANGED <<root, fs, pattern, i, results, report>>

\* find_fulltest_dirs on a root that is a plain file: exists() holds and
\* iterdir() raises NotADirectoryError, which nothing catches.
ScanFileRoot ==
    /\ pc = "start" /\ root = "file"
    /\ pc' = "done"
    /\ exit_code' = 1
    /\ stdout' = Append(stdout, Message("Traceback", <<>>))
    /\ UNCHANGED <<root, fs, pattern, result_dirs, i, results, report>>

\* find_fulltest_dirs on a directory, whose entries iterdir() lists in some order.
ScanDir ==
    /\ pc = "start" /\ root = "dir"
    /\ \E listing \in Listings(DOMAIN fs) :
          /\ result_dirs' = find_fulltest_dirs(fs, listing, pattern)
          /\ AfterScan(find_fulltest_dirs(fs, listing, pattern))
    /\ UNCHANGED <<root, fs, pattern, i, results, report>>

\* A loop that adds each record to the list twice.
ParseNextTwice ==
    /\ pc = "parse" /\ i <= Len(result_dirs)
    /\ LET d == result_dirs[i]
           r == parse_fulltest_result(d, fs[d])
       IN  /\ results' = results \o r \o r
           /\ stdout' = IF r = <<>> THEN Append(stdout, Message("Error parsing", d))
                        ELSE stdout
    /\ i' = i + 1
    /\ UNCHANGED <<pc, root, fs, pattern, result_dirs, exit_code, report>>

\* A loop that adds each record in front of the list.
ParseNextPrepending ==
    /\ pc = "parse" /\ i <= Len(result_dirs)
    /\ LET d == result_dirs[i]
           r == parse_fulltest_result(d, fs[d])
       IN  /\ results' = r \o results
           /\ stdout' = IF r = <<>> THEN Append(stdout, Message("Error parsing", d))
                        ELSE stdout
    /\ i' = i + 1
    /\ UNCHANGED <<pc, root, fs, pattern, result_dirs, exit_code, report>>

\* One iteration of: for d in result_dirs: result = parse_fulltest_result(d);
\* if result: results.append(result)
ParseNext ==
    /\ pc = "parse" /\ i <= Len(result_dirs)
    /\ LET d == result_dirs[i]
           r == parse_fulltest_result(d, fs[d])
       IN  /\ results' = results \o r
           /\ stdout' = IF r = <<>> THEN Append(stdout, Message("Error parsing", d))
                        ELSE stdout
    /\ i' = i + 1
    /\ UNCHANGED <<pc, root, fs, pattern, result_dirs, exit_code, report>>

\* A driver that goes on to the report as soon as one candidate is parsed.
ParseDoneEarly ==
    /\ pc = "parse" /\ i > 1
    /\ IF results = <<>>
       THEN /\ pc' = "done"
            /\ exit_code' = 1
            /\ stdout' = Append(stdout, Message("Failed to parse any fulltest results", <<>>))
       ELSE /\ pc' = "report"
            /\ exit_code' = exit_code
            /\ stdout' = Append(stdout, Message("Generating comparison report", <<>>))
    /\ UNCHANGED <<root, fs, pattern, result_dirs, i, results, report>>

\* Mutant of ParseDone: the report is generated whatever the list holds.
ParseDoneUnchecked ==
    /\ pc = "parse" /\ i > Len(result_dirs)
    /\ pc' = "report"
    /\ exit_code' = exit_code
    /\ stdout' = Append(stdout, Message("Generating comparison report", <<>>))
    /\ UNCHANGED <<root, fs, pattern, result_dirs, i, results, report>>

\* After the loop: if not results: print, sys.exit(1)
ParseDone ==
    /\ pc = "parse" /\ i > Len(result_dirs)
    /\ IF results = <<>>
       THEN /\ pc' = "done"
            /\ exit_code' = 1
            /\ stdout' = Append(stdout, Message("Failed to parse any fulltest results", <<>>))
       ELSE /\ pc' = "report"
            /\ exit_code' = exit_code
            /\ stdout' = Append(stdout, Message("Generating comparison report", <<>>))
    /\ UNCHANGED <<root, fs, pattern, result_dirs, i, results, report>>

\* generate_html_report(results, args.output), then main returns.
Report ==
    /\ pc = "report"
    /\ report' = <<[results |-> results,
                    radar_chart |-> create_radar_chart(results)]>>
    /\ pc' = "done"
    /\ exit_code' = 0
    /\ stdout' = Append(stdout, Message("Done", <<>>))
    /\ UNCHANGED <<root, fs, pattern, result_dirs, i, results>>

-----------------------------------------------------------------------------
(* Inputs: the files a run can find. *)

Token(v, dots) == [v |-> v, dots |-> dots]

AbsentFile == [kind |-> "absent", data |-> <<>>]
BadFile == [kind |-> "bad", data |-> <<>>]          \* does not decode as JSON
NonDictFile == [kind |-> "nondict", data |-> <<>>]  \* decodes to a list
DictFile(d) == [kind |-> "dict", data |-> d]

Restrict(f, S) == [k \in S |-> f[k]]

\* A benchmark/summary.json with every key.
BenchData ==
    [model |-> "model-a", started_at |-> "2025-01-01T00:00:00Z",
     wall_time_ms |-> 5000, total_requests |-> 10, success |-> 9, failure |-> 1,
     success_rate |-> TrueDiv(9, 10),
     avg_ttft_ms |-> TrueDiv(2005, 10), p50_ttft_ms |-> 190, p95_ttft_ms |-> 300,
     p99_ttft_ms |-> 350,
     avg_latency_ms |-> FloatOf(1500), p50_latency_ms |-> 1400,
     p95_latency_ms |-> 2000, p99_latency_ms |-> 2500,
     token_throughput |-> TrueDiv(425, 10), rps |-> FloatOf(2),
     ttft_distribution_ms |-> <<180, 220>>,
     latency_distribution_ms |-> <<1400, 1600>>]

VariedBenchKeys == {"model", "success_rate", "avg_ttft_ms", "ttft_distribution_ms"}

\* The decoded documents: any of the varied keys may be missing, and the
\* other keys are all there or all missing.
BenchDicts ==
    {Restrict(BenchData, S \cup rest) :
        S \in SUBSET VariedBenchKeys,
        rest \in {{}, (DOMAIN BenchData) \ VariedBenchKeys}}

BenchFiles == {AbsentFile, BadFile, NonDictFile} \cup {DictFile(d) : d \in BenchDicts}

\* A summary/performance_metrics.json with every key; its duration is in
\* nanoseconds, and may hold something that is not a number.
MetricsData(time) ==
    [total_chunks |-> 4, total_tokens |-> 1200, total_prompt_tokens |-> 900,
     total_completion_tokens |-> 300, total_processing_time |-> time,
     tokens_per_second |-> FloatOf(480)]

MetricsKeys == DOMAIN MetricsData(JsonNumber(0))

Durations == {JsonNumber(1500000000), JsonString}

MetricsDicts ==
    {Restrict(MetricsData(t), S) :
        t \in Durations,
        S \in {{}, {"total_chunks"}, {"total_processing_time"},
               {"total_chunks", "tokens_per_second"}, MetricsKeys}}

MetricsFiles == {AbsentFile, BadFile, NonDictFile} \cup {DictFile(d) : d \in MetricsDicts}

\* full_test_report.md
AbsentMd ==
    [kind |-> "absent", marker |-> FALSE, fn |-> <<>>, args |-> <<>>,
     latency |-> <<>>, section |-> FALSE, rows |-> <<>>, summary |-> <<>>]

\* The file exists and cannot be read as UTF-8 text.
UnreadableMd == [AbsentMd EXCEPT !.kind = "unreadable"]

EmptyMd == [AbsentMd EXCEPT !.kind = "text"]

\* The function-call part of the text: the marker and the three labelled lines.
FcTexts ==
    {[EmptyMd EXCEPT !.marker = m, !.fn = f, !.args = a, !.latency = l] :
        m \in BOOLEAN,
        f \in {<<>>, <<"get_weather">>},
        a \in {<<>>, <<"{\"city\": \"Beijing\"}">>},
        l \in {<<>>, <<Token(123456, 1)>>, <<Token(123, 2)>>}}

\* The rows row_pattern matches: well-formed ones, and ones with a decimal
\* field that float() rejects.
Row(c, t, l, th, g) ==
    [context_length |-> c, input_tokens |-> (c * 7) \div 10, ttft |-> t,
     latency |-> l, throughput |-> th, glyph |-> g]

Glyphs == {"check", "cross"}

GoodRows ==
    {Row(c, Token(12345, 1), l, Token(1234, 1), g) :
        c \in {1000, 2000, 32000}, l \in {Token(45678, 1), Token(50000, 1)},
        g \in Glyphs}

BadRows ==
    {Row(3000, t[1], t[2], t[3], g) :
        t \in {<<Token(123, 2), Token(45678, 1), Token(1234, 1)>>,
               <<Token(12345, 1), Token(123, 2), Token(1234, 1)>>,
               <<Token(12345, 1), Token(45678, 1), Token(123, 2)>>},
        g \in Glyphs}

Rows == GoodRows \cup BadRows

RECURSIVE SeqsUpTo(_, _)
SeqsUpTo(S, n) ==
    IF n = 0 THEN {<<>>}
    ELSE LET shorter == SeqsUpTo(S, n - 1)
         IN  shorter \cup {Append(s, x) : s \in shorter, x \in S}

\* The summary lines the summary pattern matches.
Summaries ==
    {<<>>} \cup
    {<<[max |-> m, avg_ttft |-> t, avg_throughput |-> th]>> :
        m \in {1000, 32000},
        t \in {Token(15000, 1)},
        th \in {Token(1100, 1)}} \cup
    {<<[max |-> 32000, avg_ttft |-> Token(15, 2), avg_throughput |-> Token(1100, 1)]>>,
     <<[max |-> 32000, avg_ttft |-> Token(15000, 1), avg_throughput |-> Token(11, 2)]>>}

\* The long-context part of the text: no section, or a section with its rows
\* and its summary line.
LcTexts ==
    {EmptyMd} \cup
    {[EmptyMd EXCEPT !.section = TRUE, !.rows = rs, !.summary = sm] :
        rs \in SeqsUpTo(Rows, MaxRows), sm \in Summaries}

LcMds == {AbsentMd, UnreadableMd} \cup LcTexts

\* A text with the function-call part of f and the long-context part of l.
Combine(f, l) ==
    [f EXCEPT !.section = l.section, !.rows = l.rows, !.summary = l.summary]

SampleRows ==
    <<Row(1000, Token(12345, 1), Token(45678, 1), Token(1234, 1), "check"),
      Row(2000, Token(15000, 1), Token(50000, 1), Token(1000, 1), "cross")>>

\* A row that row_pattern matches and whose throughput is 1.2.3.
SampleBadRow ==
    Row(3000, Token(12345, 1), Token(45678, 1), Token(123, 2), "check")

SampleSummary ==
    <<[max |-> 32000, avg_ttft |-> Token(15000, 1),
       avg_throughput |-> Token(1100, 1)]>>

SampleLcTexts ==
    {EmptyMd,
     [EmptyMd EXCEPT !.section = TRUE, !.rows = SampleRows],
     [EmptyMd EXCEPT !.section = TRUE, !.rows = SampleRows,
                     !.summary = SampleSummary],
     [EmptyMd EXCEPT !.section = TRUE,
                     !.rows = <<SampleRows[1], SampleBadRow, SampleRows[2]>>,
                     !.summary = SampleSummary],
     [EmptyMd EXCEPT !.section = TRUE,
                     !.rows = <<SampleBadRow, SampleRows[1]>>]}

ParseMds ==
    {AbsentMd, UnreadableMd} \cup {Combine(f, l) : f \in FcTexts, l \in SampleLcTexts}

\* The entries of a root directory.
FileEntry ==
    [kind |-> "file", bench |-> AbsentFile, metrics |-> AbsentFile, md |-> AbsentMd]

Dir(bench, metrics, md) ==
    [kind |-> "dir", bench |-> bench, metrics |-> metrics, md |-> md]

\* The candidate directories a single call of parse_fulltest_result is given.
CandidateDirs ==
    {Dir(b, m, d) : b \in BenchFiles, m \in MetricsFiles, d \in ParseMds}

SampleMd ==
    Combine([EmptyMd EXCEPT !.marker = TRUE, !.fn = <<"get_weather">>,
                            !.latency = <<Token(123456, 1)>>],
            [EmptyMd EXCEPT !.section = TRUE, !.rows = SampleRows])

\* The entries of the root directory of a run: plain files, directories
\* without the benchmark artifact, and candidates of each outcome.
RootEntries ==
    {FileEntry,
     Dir(AbsentFile, AbsentFile, SampleMd),
     Dir(BadFile, AbsentFile, AbsentMd),
     Dir(DictFile(BenchData), BadFile, AbsentMd),
     Dir(DictFile(BenchData), AbsentFile, AbsentMd),
     Dir(DictFile(<<>>), DictFile(MetricsData(JsonNumber(1500000000))), SampleMd)}

\* Directory names: strings over two characters, some a prefix of another.
Names == {<<1>>, <<1, 1>>, <<1, 2>>, <<2>>, <<2, 1>>}

\* --pattern: None, or a string (the empty one included).
Patterns == {<<>>} \cup {<<p>> : p \in {<<>>, <<1>>, <<2>>, <<1, 2>>}}

\* The root directories: at most MaxEntries entries, with distinct names.
RootDirs ==
    UNION {[S -> RootEntries] : S \in {T \in SUBSET Names : Cardinality(T) <= MaxEntries}}

-----------------------------------------------------------------------------
(* Specifications. *)

\* The records a chart is drawn from: what parse_fulltest_result returns for
\* a benchmark_result.json holding these six metrics (the values are read
\* from the file as they are: nothing ranges or signs them).
Measured(ttft, latency, throughput, rps_, summary_tps, rate) ==
    [avg_ttft_ms |-> ttft, avg_latency_ms |-> latency,
     token_throughput |-> throughput, rps |-> rps_,
     summary_tokens_per_second |-> summary_tps, success_rate |-> rate]

Measurements ==
    {Measured(FloatOf(0), FloatOf(0), FloatOf(0), FloatOf(0), FloatOf(0),
              FloatOf(0)),
     Measured(FloatOf(100), FloatOf(1500), FloatOf(50), FloatOf(2), FloatOf(40),
              FloatOf(1)),
     Measured(FloatOf(200), FloatOf(3000), FloatOf(100), FloatOf(4), FloatOf(0),
              TrueDiv(1, 2)),
     Measured(FloatOf(300), FloatOf(1500), FloatOf(25), FloatOf(1), FloatOf(80),
              TrueDiv(9, 10)),
     Measured(FloatOf(0), FloatOf(0), FloatOf(100), FloatOf(4), FloatOf(80),
              FloatOf(1)),
     Measured(FloatOf(100), FloatOf(1500), FloatOf(0), FloatOf(0), FloatOf(0),
              FloatOf(0)),
     Measured(TrueDiv(25, 2), TrueDiv(2501, 2), TrueDiv(101, 4), TrueDiv(1, 2),
              TrueDiv(7, 3), TrueDiv(19, 20)),
     Measured(FloatOf(-100), FloatOf(-1500), FloatOf(-50), FloatOf(-2),
              FloatOf(-40), FloatOf(0)),
     Measured(FloatOf(100), FloatOf(1500), FloatOf(50), FloatOf(2), FloatOf(40),
              TrueDiv(3, 2))}

\* The record named name with the measurements m, every other field default.
ChartRecord(name, m) ==
    [FullTestResult(name, <<>>) EXCEPT
        !.avg_ttft_ms = m.avg_ttft_ms,
        !.avg_latency_ms = m.avg_latency_ms,
        !.token_throughput = m.token_throughput,
        !.rps = m.rps,
        !.summary_tokens_per_second = m.summary_tokens_per_second,
        !.success_rate = m.success_rate]

\* Lists of up to MaxBatch records, the k-th named <<k>> (main's records have
\* distinct names).
Batches ==
    UNION {{[k \in 1..n |-> ChartRecord(<<k>>, ms[k])] :
               ms \in [1..n -> Measurements]} : n \in 0..MaxBatch}

NoRun ==
    /\ pc = "idle" /\ root = "missing" /\ fs = <<>> /\ pattern = <<>>
    /\ result_dirs = <<>> /\ i = 1 /\ results = <<>> /\ exit_code = -1
    /\ stdout = <<>> /\ report = <<>>

NoLcCall == md_path = AbsentMd /\ lc_data = <<>>

NoParseCall ==
    /\ result_dir = Dir(AbsentFile, AbsentFile, AbsentMd)
    /\ result = [returned |-> FALSE, value |-> <<>>]

NoRadarCall ==
    /\ chart_results = <<>>
    /\ radar_chart = [returned |-> FALSE, traces |-> <<>>]

\* A run of main(): the command line and the file system are the inputs.
Init ==
    /\ pc = "start"
    /\ root \in {"missing", "file", "dir"}
    /\ fs \in (IF root = "dir" THEN RootDirs ELSE {<<>>})
    /\ pattern \in Patterns
    /\ result_dirs = <<>> /\ i = 1 /\ results = <<>> /\ exit_code = -1
    /\ stdout = <<>> /\ report = <<>>
    /\ NoLcCall /\ NoParseCall /\ NoRadarCall

Next ==
    \/ ScanMissingRoot /\ UNCHANGED <<lcVars, parseVars, radarVars>>
    \/ ScanFileRoot /\ UNCHANGED <<lcVars, parseVars, radarVars>>
    \/ ScanDir /\ UNCHANGED <<lcVars, parseVars, radarVars>>
    \/ ParseNext /\ UNCHANGED <<lcVars, parseVars, radarVars>>
    \/ ParseDone /\ UNCHANGED <<lcVars, parseVars, radarVars>>
    \/ Report /\ UNCHANGED <<lcVars, parseVars, radarVars>>

Spec == Init /\ [][Next]_vars

\* One call of parse_long_context_from_md on a narrative file.
InitLc ==
    /\ NoRun /\ NoParseCall /\ NoRadarCall
    /\ md_path \in LcMds /\ lc_data = <<>>

CallParseLongContext ==
    /\ lc_data = <<>>
    /\ lc_data' = <<parse_long_context_from_md(md_path)>>
    /\ UNCHANGED <<md_path, mainVars, parseVars, radarVars>>

NextLc == CallParseLongContext

SpecLc == InitLc /\ [][NextLc]_vars

\* One call of parse_fulltest_result on a candidate directory.
CandidateName == <<1, 2>>

InitParse ==
    /\ NoRun /\ NoLcCall /\ NoRadarCall
    /\ result_dir \in CandidateDirs
    /\ result = [returned |-> FALSE, value |-> <<>>]

CallParseFulltestResult ==
    /\ ~result.returned
    /\ result' = [returned |-> TRUE,
                  value |-> parse_fulltest_result(CandidateName, result_dir)]
    /\ UNCHANGED <<result_dir, mainVars, lcVars, radarVars>>

NextParse == CallParseFulltestResult

SpecParse == InitParse /\ [][NextParse]_vars

\* One call of create_radar_chart on a list of records.
InitRadar ==
    /\ NoRun /\ NoLcCall /\ NoParseCall
    /\ chart_results \in Batches
    /\ radar_chart = [returned |-> FALSE, traces |-> <<>>]

CallCreateRadarChart ==
    /\ ~radar_chart.returned
    /\ radar_chart' = [returned |-> TRUE,
                       traces |-> create_radar_chart(chart_results)]
    /\ UNCHANGED <<chart_results, mainVars, lcVars, parseVars>>

NextRadar == CallCreateRadarChart

SpecRadar == InitRadar /\ [][NextRadar]_vars

-----------------------------------------------------------------------------
(* Properties of the scanner and of the run. *)

\* main() has called find_fulltest_dirs on a root that is a directory.
Scanned == pc \in {"parse", "report", "done"} /\ root = "dir"

\* The entry holds the mandatory artifact benchmark/summary.json.
Qualifies(name) == fs[name].kind = "dir" /\ fs[name].bench.kind # "absent"

\* p occurs in name: name = u \o p \o v for some u and v.
Occurs(p, name) ==
    \E a \in 0..Len(name) :
        /\ a + Len(p) <= Len(name)
        /\ \A k \in 1..Len(p) : name[a + k] = p[k]

\* a comes strictly before b in the lexicographic order.
LexBefore(a, b) ==
    \E m \in 0..Len(a) :
        /\ m <= Len(b)
        /\ \A k \in 1..m : a[k] = b[k]
        /\ \/ m = Len(a) /\ m < Len(b)
           \/ m < Len(a) /\ m < Len(b) /\ a[m + 1] < b[m + 1]

Range(s) == {s[k] : k \in 1..Len(s)}

\* C4: on an existing root directory the scanner returns exactly the
\* subdirectories that hold benchmark/summary.json and whose name contains
\* the substring (all of them without a filter), each once, in strictly
\* increasing lexicographic order of name; files and non-qualifying
\* subdirectories are not in it.
C4_ScannerResult ==
    Scanned =>
        /\ Range(result_dirs) =
              {n \in DOMAIN fs :
                  Qualifies(n) /\ (pattern = <<>> \/ Occurs(pattern[1], n))}
        /\ \A j, k \in 1..Len(result_dirs) :
              j < k => LexBefore(result_dirs[j], result_dirs[k])

\* A scan with a filter that kept two candidates of a root that also holds
\* a subdirectory without the artifact.
C4_Witness ==
    /\ Scanned /\ pattern # <<>> /\ pattern[1] # <<>>
    /\ Len(result_dirs) = 2
    /\ \E n \in DOMAIN fs : fs[n].kind = "dir" /\ ~Qualifies(n)

HasMessage(msg) == \E k \in 1..Len(stdout) : stdout[k].msg = msg

\* C5: on a root that does not exist the scanner reports the root-not-found
\* error and the run ends before any parsing; on a root that exists and has
\* no qualifying candidate it returns the empty sequence and reports no
\* such error, so the two outcomes differ.
C5_RootNotFound ==
    /\ (pc # "start" /\ root = "missing") =>
          /\ HasMessage("Output directory does not exist")
          /\ result_dirs = <<>> /\ pc = "done" /\ exit_code = 1 /\ i = 1
    /\ (Scanned /\ \A n \in DOMAIN fs : ~Qualifies(n)) =>
          /\ result_dirs = <<>>
          /\ ~HasMessage("Output directory does not exist")
          /\ ~HasMessage("Traceback")

\* The scanner has run on a root that does not exist.
C5_Witness == pc = "done" /\ root = "missing" /\ stdout # <<>>

\* C3: a finished run has exit code 0 exactly when at least one record was
\* parsed; a run on a root directory that ends without a record (nothing
\* qualified, the filter excluded everything, or every parse failed) ends in
\* the empty-batch condition: exit code 1, its message printed last, no
\* uncaught exception, no report generated.
EmptyBatchMessages ==
    {"No fulltest results found", "Failed to parse any fulltest results"}

-----------------------------------------------------------------------------
(* Properties of the batch. *)

\* The loop over result_dirs has ended.
ParsedAll == root = "dir" /\ pc \in {"report", "done"} /\ result_dirs # <<>>

\* The mandatory artifact of the candidate exists and does not decode to a
\* key/value document.
Malformed(name) == fs[name].bench.kind \in {"bad", "nondict"}

MalformedIn(dirs) == {k \in 1..Len(dirs) : Malformed(dirs[k])}

RecordNames == {results[k].name : k \in 1..Len(results)}

\* C1 (as claimed): in a batch with malformed mandatory artifacts each
\* malformed candidate yields no record, the batch has exactly (qualifying
\* candidates - malformed candidates) records, and every record is the one
\* its candidate yields on its own.
C1_SkipMalformed ==
    (ParsedAll /\ MalformedIn(result_dirs) # {}) =>
        /\ \A k \in MalformedIn(result_dirs) : result_dirs[k] \notin RecordNames
        /\ Len(results) = Len(result_dirs) - Cardinality(MalformedIn(result_dirs))
        /\ \A k \in 1..Len(results) :
              <<results[k]>> = parse_fulltest_result(results[k].name, fs[results[k].name])

-----------------------------------------------------------------------------
(* Properties of one call of parse_fulltest_result. *)

\* C2 (as claimed): a candidate whose mandatory artifact decodes as a
\* key/value document yields a record, whatever keys the document lacks and
\* whatever the optional summarization artifact and the narrative hold.
C2_OnlyMandatoryFatal ==
    (result.returned /\ result_dir.bench.kind = "dict") => result.value # <<>>

\* C10: a record of a candidate without narrative file has the function-call
\* phase (unsupported, empty name, empty arguments, zero latency) and the
\* long-context phase (zero maximum, zero averages, no trial) at their
\* defaults, whatever the other artifacts hold.
C10_NoNarrativeDefaults ==
    (result.returned /\ result.value # <<>> /\ result_dir.md.kind = "absent") =>
        LET r == result.value[1]
        IN  /\ r.fc_supported = FALSE
            /\ r.fc_function_name = ""
            /\ r.fc_arguments = ""
            /\ r.fc_latency_ms = [n |-> 0, d |-> 1]
            /\ r.lc_max_supported = 0
            /\ r.lc_avg_ttft_ms = [n |-> 0, d |-> 1]
            /\ r.lc_avg_latency_ms = [n |-> 0, d |-> 1]
            /\ r.lc_avg_throughput = [n |-> 0, d |-> 1]
            /\ r.lc_results = <<>>

\* A record of a candidate with both structured artifacts and no narrative.
C10_Witness ==
    /\ result.returned /\ result.value # <<>>
    /\ result_dir.md.kind = "absent"
    /\ result_dir.metrics.kind = "dict"
    /\ result.value[1].summary_total_chunks > 0
    /\ result.value[1].model # "Unknown"

-----------------------------------------------------------------------------
(* Properties of one call of parse_long_context_from_md. *)

\* The call has returned.
LcReturned == lc_data # <<>>

\* The narrative holds the long-context section.
LcSection == md_path.kind = "text" /\ md_path.section

\* The text is a decimal number: digits with at most one point.
IsDecimal(tok) == tok.dots \in {0, 1}

\* The three decimal fields of the row are numbers.
RowParseable(m) ==
    IsDecimal(m.ttft) /\ IsDecimal(m.latency) /\ IsDecimal(m.throughput)

AllRowsParseable == \A k \in 1..Len(md_path.rows) : RowParseable(md_path.rows[k])

\* The decimal fields of the summary line, when there is one, are numbers.
SummaryParseable ==
    md_path.summary # <<>> =>
        IsDecimal(md_path.summary[1].avg_ttft) /\ IsDecimal(md_path.summary[1].avg_throughput)

\* The indices of the parseable rows flagged successful.
SuccessfulRows(rows) ==
    {k \in 1..Len(rows) : rows[k].glyph = "check" /\ RowParseable(rows[k])}

\* The largest context length among the rows of index in K, 0 without any.
LargestContext(rows, K) ==
    IF K = {} THEN 0
    ELSE CHOOSE c \in {rows[k].context_length : k \in K} :
            \A k \in K : rows[k].context_length <= c

\* The rows before the first row that is not parseable.
ParseablePrefix(rows) ==
    SubSeq(rows, 1,
           CHOOSE n \in 0..Len(rows) :
              /\ \A k \in 1..n : RowParseable(rows[k])
              /\ n < Len(rows) => ~RowParseable(rows[n + 1]))

RECURSIVE SumOver(_, _)
SumOver(K, f) ==
    IF K = {} THEN 0
    ELSE LET k == CHOOSE x \in K : TRUE IN f[k] + SumOver(K \ {k}, f)

\* The rational q is the arithmetic mean of f over K (0 when K is empty).
IsMean(q, K, f) ==
    /\ q.d > 0
    /\ IF K = {} THEN q.n = 0
       ELSE q.n * Cardinality(K) = SumOver(K, f) * q.d

RowTtft(rows) == [k \in 1..Len(rows) |-> rows[k].ttft.v]
RowLatency(rows) == [k \in 1..Len(rows) |-> rows[k].latency.v]
RowThroughput(rows) == [k \in 1..Len(rows) |-> rows[k].throughput.v]

\* C6 (as claimed): with at least one parseable row in the section, the
\* maximum supported context length is the largest context length among the
\* successful rows, also when a summary line declares another maximum.
C6_RowsDecideMaximum ==
    (LcReturned /\ LcSection /\ md_path.rows # <<>> /\ AllRowsParseable
       /\ SummaryParseable) =>
        lc_data[1].max_supported =
            LargestContext(md_path.rows, SuccessfulRows(md_path.rows))

\* C7 (as claimed): in a section with rows and no summary line the maximum
\* is the largest context length among the successful rows, 0 without any.
C7_MaximumOfSuccessfulRows ==
    (LcReturned /\ LcSection /\ md_path.rows # <<>> /\ md_path.summary = <<>>) =>
        lc_data[1].max_supported =
            LargestContext(md_path.rows, SuccessfulRows(md_path.rows))

\* C7 (amended): in a section with rows and no summary line the maximum is
\* the largest context length among the successful rows that come before
\* the first row with a decimal field that is not a number (among all
\* successful rows when every row is parseable), 0 without any; the rows
\* (1000, success), (2000, failure) give 1000.
C7_MaximumOfRowsBeforeBadRow ==
    /\ (LcReturned /\ LcSection /\ md_path.rows # <<>> /\ md_path.summary = <<>>) =>
          lc_data[1].max_supported =
              LargestContext(ParseablePrefix(md_path.rows),
                             SuccessfulRows(ParseablePrefix(md_path.rows)))
    /\ (LcReturned /\ LcSection /\ md_path.summary = <<>> /\ Len(md_path.rows) = 2
          /\ AllRowsParseable
          /\ md_path.rows[1].context_length = 1000 /\ md_path.rows[1].glyph = "check"
          /\ md_path.rows[2].context_length = 2000 /\ md_path.rows[2].glyph = "cross") =>
          lc_data[1].max_supported = 1000

\* The call has returned on a section with the rows (1000, success),
\* (2000, failure) and no summary line.
C7_Witness ==
    /\ LcReturned /\ LcSection /\ md_path.summary = <<>> /\ Len(md_path.rows) = 2
    /\ AllRowsParseable
    /\ md_path.rows[1].context_length = 1000 /\ md_path.rows[1].glyph = "check"
    /\ md_path.rows[2].context_length = 2000 /\ md_path.rows[2].glyph = "cross"

\* C8 (as claimed): the average latency is always the mean latency of the
\* successful rows (0 without any), with or without a summary line.
C8_AverageLatencyAlwaysMean ==
    LcReturned =>
        IsMean(lc_data[1].avg_latency_ms, SuccessfulRows(md_path.rows),
               RowLatency(md_path.rows))

\* C8 (amended): when every decimal field of the rows and of the summary line
\* is a number, the average latency is the mean latency of the successful
\* rows (0 without any), whatever the summary line declares; when one of
\* these fields is not a number the average latency is 0.
C8_AverageLatencyMeanOrZero ==
    LcReturned =>
        IF AllRowsParseable /\ SummaryParseable
        THEN IsMean(lc_data[1].avg_latency_ms, SuccessfulRows(md_path.rows),
                    RowLatency(md_path.rows))
        ELSE lc_data[1].avg_latency_ms = [n |-> 0, d |-> 1]

\* The call has returned on a section with a summary line and two successful
\* rows of different latency.
C8_Witness ==
    /\ LcReturned /\ LcSection /\ md_path.summary # <<>>
    /\ AllRowsParseable /\ SummaryParseable
    /\ Len(md_path.rows) = 2
    /\ SuccessfulRows(md_path.rows) = {1, 2}
    /\ md_path.rows[1].latency # md_path.rows[2].latency
    /\ lc_data[1].avg_latency_ms.n > 0

\* C9 (as claimed): in a section with successful rows and no summary line the
\* average TTFT and the average throughput are the means over those rows.
C9_AveragesOverSuccessfulRows ==
    (LcReturned /\ LcSection /\ md_path.summary = <<>> /\ AllRowsParseable
       /\ SuccessfulRows(md_path.rows) # {}) =>
        /\ IsMean(lc_data[1].avg_ttft_ms, SuccessfulRows(md_path.rows),
                  RowTtft(md_path.rows))
        /\ IsMean(lc_data[1].avg_throughput, SuccessfulRows(md_path.rows),
                  RowThroughput(md_path.rows))

-----------------------------------------------------------------------------
(* The normalised scores of create_radar_chart. *)

\* The call of create_radar_chart has returned on a batch of at least one
\* record.
Charted == radar_chart.returned /\ chart_results # <<>>

\* The categories in the order of the score vector: responsiveness,
\* generation-speed, throughput, request-rate, success-rate,
\* summarization-rate.
LowerIsBetter == {1, 2}
HigherIsBetter == {3, 4, 6}
Normalized == LowerIsBetter \cup HigherIsBetter
Categories == 1..6

\* The metric of the record r that category c is scored from.
Metric(c, r) ==
    CASE c = 1 -> r.avg_ttft_ms
      [] c = 2 -> r.avg_latency_ms
      [] c = 3 -> r.token_throughput
      [] c = 4 -> r.rps
      [] c = 5 -> r.success_rate
      [] c = 6 -> r.summary_tokens_per_second

\* The score of the k-th record of the batch in category c.
Score(k, c) == radar_chart.traces[k].r[c]

\* x <= y for rationals with positive denominators.
AtMost(x, y) == x.n * y.d <= y.n * x.d

\* The largest value of category c's metric over all records of the batch.
BatchMaximum(c) ==
    CHOOSE m \in {Metric(c, chart_results[k]) : k \in 1..Len(chart_results)} :
        \A k \in 1..Len(chart_results) : AtMost(Metric(c, chart_results[k]), m)

\* The divisor of category c: the batch maximum, 1 when that is zero.
Divisor(c) ==
    IF BatchMaximum(c).n = 0 THEN [n |-> 1, d |-> 1] ELSE BatchMaximum(c)

\* The rational s equals the fraction a / b (b # 0).
IsFraction(s, a, b) == s.d > 0 /\ s.n * b = s.d * a

\* s = (1 - v / m) * 100, s = (v / m) * 100 and s = v * 100.
IsInverted(s, v, m) == IsFraction(s, 100 * (m.n * v.d - v.n * m.d), v.d * m.n)
IsDirect(s, v, m) == IsFraction(s, 100 * v.n * m.d, v.d * m.n)
IsPercent(s, v) == IsFraction(s, 100 * v.n, v.d)

\* The k-th score vector follows the formulas of the six categories, the
\* normalised ones with the batch's divisor.
FollowsFormula(k, c) ==
    LET v == Metric(c, chart_results[k])
    IN  CASE c \in LowerIsBetter -> IsInverted(Score(k, c), v, Divisor(c))
          [] c \in HigherIsBetter -> IsDirect(Score(k, c), v, Divisor(c))
          [] c = 5 -> IsPercent(Score(k, c), v)

\* One trace per record, in list order, under the record's name, with six
\* scores.
OneTracePerRecord ==
    /\ Len(radar_chart.traces) = Len(chart_results)
    /\ \A k \in 1..Len(chart_results) :
          /\ radar_chart.traces[k].name = chart_results[k].name
          /\ Len(radar_chart.traces[k].r) = 6

\* C11 (as claimed): for every batch of at least one record and every record
\* in it, each of the six scores follows its category's formula, the batch
\* maximum (1 in its place when it is zero) being taken over all records.
C11_ScoreVector ==
    Charted =>
        /\ OneTracePerRecord
        /\ \A k \in 1..Len(chart_results) : \A c \in Categories :
              FollowsFormula(k, c)

\* C11 (amended): each of the six scores follows its category's formula in
\* every category whose batch maximum is not negative (the divisor is 1 when
\* the maximum is zero); in a normalised category whose batch maximum is
\* negative every record's score is 0.
C11_ScoreVectorUnlessNegativeMaximum ==
    Charted =>
        /\ OneTracePerRecord
        /\ \A k \in 1..Len(chart_results) : \A c \in Categories :
              IF c \in Normalized /\ BatchMaximum(c).n < 0
              THEN Score(k, c) = [n |-> 0, d |-> 1]
              ELSE FollowsFormula(k, c)

\* A batch of three records has been charted whose average TTFT differ, the
\* first one's lying strictly between zero and the batch maximum.
C11_Witness ==
    /\ Charted /\ Len(chart_results) = 3
    /\ BatchMaximum(1) = chart_results[3].avg_ttft_ms
    /\ chart_results[1].avg_ttft_ms.n > 0
    /\ chart_results[1].avg_ttft_ms # chart_results[2].avg_ttft_ms
    /\ ~AtMost(BatchMaximum(1), chart_results[1].avg_ttft_ms)
    /\ Score(1, 1).n > 0 /\ Score(1, 3).n > 0

\* A batch of three records with the average TTFT 100, 200 and 300, in this
\* order, has been charted.
TtftBatch100To300 ==
    /\ Charted /\ Len(chart_results) = 3
    /\ chart_results[1].avg_ttft_ms = [n |-> 100, d |-> 1]
    /\ chart_results[2].avg_ttft_ms = [n |-> 200, d |-> 1]
    /\ chart_results[3].avg_ttft_ms = [n |-> 300, d |-> 1]

\* C12 (as claimed): records with the average TTFT 100, 200 and 300 get the
\* responsiveness scores 100, 50 and 0.
C12_ResponsivenessExample ==
    TtftBatch100To300 =>
        /\ Score(1, 1) = [n |-> 100, d |-> 1]
        /\ Score(2, 1) = [n |-> 50, d |-> 1]
        /\ Score(3, 1) = [n |-> 0, d |-> 1]

\* C12 (amended): records with the average TTFT 100, 200 and 300 get the
\* responsiveness scores 200/3, 100/3 and 0 (the batch maximum is 300).
C12_ResponsivenessExampleThirds ==
    TtftBatch100To300 =>
        /\ Score(1, 1) = [n |-> 200, d |-> 3]
        /\ Score(2, 1) = [n |-> 100, d |-> 3]
        /\ Score(3, 1) = [n |-> 0, d |-> 1]

\* The batch of the example has been charted, its three records differing in
\* the other metrics as well.
C12_Witness ==
    /\ TtftBatch100To300
    /\ chart_results[1].token_throughput # chart_results[2].token_throughput
    /\ chart_results[2].token_throughput # chart_results[3].token_throughput

\* Every metric the scores are computed from is non-negative, in every
\* record of the batch.
NonNegativeInputs ==
    \A k \in 1..Len(chart_results) : \A c \in Categories :
        Metric(c, chart_results[k]).n >= 0

\* C13 (as claimed): when the batch maximum of a normalised category's metric
\* is zero, every record of the batch gets score 0 in that category, in the
\* lower-is-better categories as well as in the higher-is-better ones (the
\* inputs being non-negative).
C13_ZeroMaximumScoresZero ==
    (Charted /\ NonNegativeInputs) =>
        \A c \in Normalized :
            BatchMaximum(c).n = 0 =>
                \A k \in 1..Len(chart_results) : Score(k, c) = [n |-> 0, d |-> 1]

\* The score s lies in [0, 100].
InRange(s) == s.d > 0 /\ 0 <= s.n /\ s.n <= 100 * s.d

AllScoresInRange ==
    \A k \in 1..Len(chart_results) : \A c \in Categories : InRange(Score(k, c))

\* C14 (as claimed): for a batch whose metric inputs are all non-negative,
\* every score of every record in each of the six categories lies in
\* [0, 100].
C14_ScoresInRange == (Charted /\ NonNegativeInputs) => AllScoresInRange

\* C14 (amended): for a batch whose metric inputs are all non-negative and
\* whose success rates are at most 1, every score of every record in each of
\* the six categories lies in [0, 100].
C14_ScoresInRangeForRatesUpToOne ==
    (/\ Charted /\ NonNegativeInputs
     /\ \A k \in 1..Len(chart_results) : chart_results[k].success_rate.n
                                            <= chart_results[k].success_rate.d)
        => AllScoresInRange

\* A batch of non-negative inputs with success rates up to 1 has been
\* charted, with a score strictly inside the range in every category.
C14_Witness ==
    /\ Charted /\ NonNegativeInputs /\ Len(chart_results) >= 2
    /\ \A k \in 1..Len(chart_results) : chart_results[k].success_rate.n
                                           <= chart_results[k].success_rate.d
    /\ \A c \in Categories : \E k \in 1..Len(chart_results) :
          0 < Score(k, c).n /\ Score(k, c).n < 100 * Score(k, c).d

\* A batch of exactly one record has been charted.
ChartedAlone == Charted /\ Len(chart_results) = 1

\* C15 (as claimed): in a batch of exactly one record every higher-is-better
\* metric equals the batch maximum and its score is exactly 100, for every
\* non-negative value of the metric.
C15_SingleRecordScores100 ==
    ChartedAlone =>
        \A c \in HigherIsBetter :
            Metric(c, chart_results[1]).n >= 0 =>
                /\ Metric(c, chart_results[1]) = BatchMaximum(c)
                /\ Score(1, c) = [n |-> 100, d |-> 1]

\* C15 (amended): in a batch of exactly one record every higher-is-better
\* metric equals the batch maximum; its score is exactly 100 for every
\* positive value of the metric, and 0 when the value is zero.
C15_SingleRecordScores100IfPositive ==
    ChartedAlone =>
        \A c \in HigherIsBetter :
            /\ Metric(c, chart_results[1]) = BatchMaximum(c)
            /\ Metric(c, chart_results[1]).n > 0 =>
                  Score(1, c) = [n |-> 100, d |-> 1]
            /\ Metric(c, chart_results[1]).n = 0 =>
                  Score(1, c) = [n |-> 0, d |-> 1]

\* A single record with positive throughput and request rate and no
\* summarization rate has been charted.
C15_Witness ==
    /\ ChartedAlone
    /\ chart_results[1].token_throughput.n > 0
    /\ chart_results[1].rps.n > 0
    /\ chart_results[1].summary_tokens_per_second.n = 0
    /\ Score(1, 3) = [n |-> 100, d |-> 1]

-----------------------------------------------------------------------------
(* Order of the run: parse everything, then normalise. *)

\* The candidate yields a record.
Parses(name) == ~ParseFails(fs[name])

\* The names of the records, in list order.
NamesOf(rs) == [k \in 1..Len(rs) |-> rs[k].name]

\* The first n candidates of the scanner's list with the failed ones removed.
Survivors(n) == SelectSeq(SubSeq(result_dirs, 1, n), Parses)

\* C16: normalisation and the report start only after the parse of every
\* candidate returned by the scanner has completed, and they read the whole
\* list of successfully parsed records: the radar chart has one score vector
\* per candidate that parsed, never one of a partial batch.
C16_NormalizeAfterAllParses ==
    (pc = "report" \/ report # <<>>) =>
        /\ i = Len(result_dirs) + 1
        /\ NamesOf(results) = Survivors(Len(result_dirs))
        /\ report # <<>> =>
              /\ pc = "done"
              /\ report[1].results = results
              /\ NamesOf(report[1].radar_chart) = Survivors(Len(result_dirs))

\* A report has been generated in a run with three candidates, the first of
\* which failed to parse.
C16_Witness ==
    /\ pc = "done" /\ report # <<>> /\ Len(result_dirs) = 3
    /\ ~Parses(result_dirs[1])
    /\ Len(report[1].radar_chart) = 2

\* One step of the loop: the next candidate of the scanner's list, and no
\* other, is parsed, and its record (if any) goes to the end of the list.
OneAtATime ==
    (pc = "parse" /\ i' # i) =>
        /\ i <= Len(result_dirs) /\ i' = i + 1
        /\ result_dirs' = result_dirs
        /\ \/ results' = results /\ ~Parses(result_dirs[i])
           \/ /\ Parses(result_dirs[i])
              /\ Len(results') = Len(results) + 1
              /\ SubSeq(results', 1, Len(results)) = results
              /\ results'[Len(results')].name = result_dirs[i]

\* The names of the records are those of the candidates parsed so far with
\* the failed ones removed, in strictly increasing lexicographic order.
InScannerOrder ==
    Scanned =>
        /\ NamesOf(results) = Survivors(i - 1)
        /\ \A j, k \in 1..Len(results) :
              j < k => LexBefore(results[j].name, results[k].name)

\* C17: candidates are parsed one at a time in the scanner's lexicographic
\* order, and the sequence of record names is the sequence of candidate names
\* with the failed candidates removed, hence sorted lexicographically.
C17_ParsedInScannerOrder == []InScannerOrder /\ [][OneAtATime]_vars

\* All of three candidates have been parsed; the second failed and the two
\* others gave the records.
C17_Witness ==
    /\ pc = "done" /\ Len(result_dirs) = 3 /\ i = 4
    /\ ~Parses(result_dirs[2])
    /\ NamesOf(results) = <<result_dirs[1], result_dirs[3]>>

-----------------------------------------------------------------------------
(* The trial sequence of the long-context phase. *)

\* The entry e carries the fields of the table row m.
IsEntryOf(e, m) ==
    /\ e.context_length = m.context_length
    /\ e.input_tokens = m.input_tokens
    /\ e.success = (m.glyph = "check")
    /\ RowParseable(m) =>
          /\ e.ttft_ms = m.ttft.v
          /\ e.latency_ms = m.latency.v
          /\ e.throughput = m.throughput.v

\* The trial sequence holds one entry per row of rows, in the same order.
OneEntryPerRow(rows) ==
    /\ Len(lc_data[1].results) = Len(rows)
    /\ \A k \in 1..Len(rows) : IsEntryOf(lc_data[1].results[k], rows[k])

\* C18 (as claimed): the trial sequence contains one entry per matching table
\* row of the long-context section, in the order of the rows in the
\* narrative, failed rows included.
C18_OneEntryPerMatchingRow ==
    (LcReturned /\ LcSection) => OneEntryPerRow(md_path.rows)

\* C18 (amended): the trial sequence contains one entry per matching table
\* row that comes before the first row with a decimal field that is not a
\* number (per matching row when every row is parseable), in the order of
\* the rows in the narrative, failed rows included; without the section it
\* is empty.
C18_OneEntryPerRowBeforeBadRow ==
    LcReturned =>
        IF LcSection THEN OneEntryPerRow(ParseablePrefix(md_path.rows))
        ELSE lc_data[1].results = <<>>

\* The call has returned on a section of two parseable rows, the first one
\* failed and of a larger context length than the second.
C18_Witness ==
    /\ LcReturned /\ LcSection /\ Len(md_path.rows) = 2 /\ AllRowsParseable
    /\ md_path.rows[1].glyph = "cross"
    /\ md_path.rows[1].context_length > md_path.rows[2].context_length
    /\ Len(lc_data[1].results) = 2

-----------------------------------------------------------------------------
(* The narrative phases of a record. *)

\* The call of parse_fulltest_result has returned a record.
RecordReturned == result.returned /\ result.value # <<>>

\* The function-call phase of the record is at its unsupported default.
FcUnsupportedDefault(r) ==
    /\ r.fc_supported = FALSE
    /\ r.fc_function_name = ""
    /\ r.fc_arguments = ""
    /\ r.fc_latency_ms = [n |-> 0, d |-> 1]

\* C19: without the function-call support marker in the narrative the
\* function-call phase stays at its unsupported default, even if the labelled
\* function-name, arguments or latency lines are in the text; with the marker
\* the phase is supported, each sub-field is taken from its labelled line,
\* and each one keeps its default when its line is absent.
C19_SubFieldsOnlyWithMarker ==
    (RecordReturned /\ result_dir.md.kind = "text") =>
        LET r == result.value[1]
            md == result_dir.md
        IN  /\ ~md.marker => FcUnsupportedDefault(r)
            /\ md.marker =>
                  /\ r.fc_supported = TRUE
                  /\ r.fc_function_name = IF md.fn = <<>> THEN "" ELSE md.fn[1]
                  /\ r.fc_arguments = IF md.args = <<>> THEN "" ELSE md.args[1]
                  /\ md.latency = <<>> => r.fc_latency_ms = [n |-> 0, d |-> 1]
                  /\ (md.latency # <<>> /\ IsDecimal(md.latency[1])) =>
                        r.fc_latency_ms = [n |-> md.latency[1].v, d |-> 1]

\* A record of a candidate whose narrative holds the three labelled lines
\* and not the marker.
C19_Witness ==
    /\ RecordReturned /\ result_dir.md.kind = "text"
    /\ ~result_dir.md.marker
    /\ result_dir.md.fn # <<>> /\ result_dir.md.args # <<>>
    /\ result_dir.md.latency # <<>> /\ IsDecimal(result_dir.md.latency[1])

\* The long-context section of the candidate's narrative has a row with a
\* decimal field that is not a number.
HasBadRow ==
    /\ result_dir.md.kind = "text" /\ result_dir.md.section
    /\ \E k \in 1..Len(result_dir.md.rows) : ~RowParseable(result_dir.md.rows[k])

\* The candidate without its narrative.
WithoutNarrative == [result_dir EXCEPT !.md = AbsentMd]

\* C20: a matching row with a decimal field that is not a number stops the
\* extraction of the long-context phase at that row without failing the
\* candidate: the record is produced whenever it is without the narrative,
\* its trial sequence holds the rows before the bad one, its maximum is that
\* of the successful rows among them, and the average TTFT, latency and
\* throughput stay 0 (summary line and average latency are not applied).
C20_BadRowStopsExtraction ==
    (result.returned /\ HasBadRow) =>
        /\ result.value = <<>> <=>
              parse_fulltest_result(CandidateName, WithoutNarrative) = <<>>
        /\ result.value # <<>> =>
              LET r == result.value[1]
                  before == ParseablePrefix(result_dir.md.rows)
              IN  /\ Len(r.lc_results) = Len(before)
                  /\ \A k \in 1..Len(before) : IsEntryOf(r.lc_results[k], before[k])
                  /\ r.lc_max_supported =
                        LargestContext(before, SuccessfulRows(before))
                  /\ r.lc_avg_ttft_ms = [n |-> 0, d |-> 1]
                  /\ r.lc_avg_latency_ms = [n |-> 0, d |-> 1]
                  /\ r.lc_avg_throughput = [n |-> 0, d |-> 1]

\* A record of a candidate whose section has a successful row, then a row
\* with the throughput 1.2.3, then another row and a summary line.
C20_Witness ==
    /\ RecordReturned /\ HasBadRow
    /\ Len(result_dir.md.rows) = 3
    /\ RowParseable(result_dir.md.rows[1])
    /\ ~RowParseable(result_dir.md.rows[2])
    /\ result_dir.md.summary # <<>>
    /\ Len(result.value[1].lc_results) = 1
    /\ result.value[1].lc_max_supported = 1000

-----------------------------------------------------------------------------
(* The records collected so far. *)

\* The candidates parsed so far: the first i - 1 of the scanner's list.
ParsedSoFar == {result_dirs[m] : m \in 1..(i - 1)}

\* The indices of the records that carry the name.
RecordsNamed(name) == {k \in 1..Len(results) : results[k].name = name}

\* C21: at every point of a run the records collected so far have pairwise
\* distinct names, every record name is the name of a candidate returned by
\* the scanner that has already been parsed, the number of records does not
\* exceed the number of candidates parsed so far, and no candidate has more
\* than one record.
C21_RecordsOfParsedCandidates ==
    /\ i - 1 <= Len(result_dirs)
    /\ \A j, k \in 1..Len(results) :
          j # k => results[j].name # results[k].name
    /\ \A k \in 1..Len(results) : results[k].name \in ParsedSoFar
    /\ Len(results) <= i - 1
    /\ \A m \in 1..Len(result_dirs) :
          Cardinality(RecordsNamed(result_dirs[m])) <= 1

\* In the middle of the loop over three candidates: two are parsed, one of
\* them gave a record and the other failed, the third is still to come.
C21_Witness ==
    /\ pc = "parse" /\ Len(result_dirs) = 3 /\ i = 3
    /\ Len(results) = 1
    /\ results[1].name \in {result_dirs[1], result_dirs[2]}

====
